---------------------------- MODULE Spec2Model ----------------------------
(***************************************************************************)
(* Geofence store service (src/server/server.py): a Flask application with *)
(* two handlers, create_geofence (POST /api/geofence) and get_geofences    *)
(* (GET /api/geofences), over one SQLite table "fences".  app.run serves   *)
(* each request on its own thread, so the handlers interleave at the       *)
(* store: each statement on the store is a step of its own.                *)
(***************************************************************************)
EXTENDS Integers, Sequences, FiniteSets, TLC

(***************************************************************************)
(* Python values.  Every value is a tagged record; a str is the sequence   *)
(* of its characters, a float is its shortest decimal repr (sign, whole    *)
(* part, fraction digits), a dict is a function from keys to values.       *)
(***************************************************************************)
NONE == [t |-> "none"]
STR(chars) == [t |-> "str", s |-> chars]
INT(n) == [t |-> "int", n |-> n]
FLOAT(neg, whole, frac) == [t |-> "float", neg |-> neg, w |-> whole, f |-> frac]
LIST(items) == [t |-> "list", a |-> items]
DICT(fields) == [t |-> "dict", o |-> fields]
EmptyDict == DICT([k \in {} |-> NONE])

\* The outcome of a call: ok and its value, or an exception raised.
Raised == [ok |-> FALSE, v |-> NONE]
Returned(v) == [ok |-> TRUE, v |-> v]

\* A faulty lookup: the default is dropped and an absent key yields "".
CallGetNoDefault(v, key, default) ==
    IF v.t = "dict"
    THEN Returned(IF key \in DOMAIN v.o THEN v.o[key] ELSE STR(<<>>))
    ELSE Raised

\* A faulty lookup that coerces None to an empty dict, as (v or {}).get would.
CallGetCoerced(v, key, default) ==
    CASE v.t = "dict" -> Returned(IF key \in DOMAIN v.o THEN v.o[key] ELSE default)
      [] v.t = "none" -> Returned(default)
      [] OTHER -> Raised

\* v.get(key, default): on a dict, the value under key, or the default when
\* key is absent.  None, a list, a str and a number have no attribute 'get':
\* the call raises AttributeError.
CallGet(v, key, default) ==
    IF v.t = "dict"
    THEN Returned(IF key \in DOMAIN v.o THEN v.o[key] ELSE default)
    ELSE Raised

(***************************************************************************)
(* json.dumps with its default separators, over None, numbers and lists.   *)
(***************************************************************************)
DigitChars == <<"0", "1", "2", "3", "4", "5", "6", "7", "8", "9">>

RECURSIVE NatStr(_)
NatStr(n) == IF n < 10 THEN <<DigitChars[n + 1]>>
             ELSE NatStr(n \div 10) \o <<DigitChars[(n % 10) + 1]>>

IntStr(n) == IF n < 0 THEN <<"-">> \o NatStr(-n) ELSE NatStr(n)

FracStr(frac) == [i \in 1..Len(frac) |-> DigitChars[frac[i] + 1]]

\* A faulty float repr: a float with a zero fraction is written like an int
\* (1.0 as 1), as an encoder that does not tell floats from ints would.
FloatStrAsInt(v) ==
    (IF v.neg THEN <<"-">> ELSE <<>>) \o NatStr(v.w)
        \o (IF v.f = <<0>> THEN <<>> ELSE <<".">> \o FracStr(v.f))

\* repr of a float: sign, whole part, point, fraction digits.
FloatStr(v) == (IF v.neg THEN <<"-">> ELSE <<>>) \o NatStr(v.w) \o <<".">> \o FracStr(v.f)

NumStr(v) == IF v.t = "int" THEN IntStr(v.n) ELSE FloatStr(v)

RECURSIVE Dumps(_)
RECURSIVE DumpsItems(_, _)
DumpsItems(items, i) ==
    IF i > Len(items) THEN <<>>
    ELSE (IF i > 1 THEN <<",", " ">> ELSE <<>>) \o Dumps(items[i]) \o DumpsItems(items, i + 1)

Dumps(v) ==
    CASE v.t = "none" -> <<"n", "u", "l", "l">>
      [] v.t \in {"int", "float"} -> NumStr(v)
      [] v.t = "list" -> <<"[">> \o DumpsItems(v.a, 1) \o <<"]">>

(***************************************************************************)
(* json.loads, the decoder a client applies to the coordinates text: a     *)
(* recursive-descent parser.  Each parser takes the text and a position    *)
(* and returns [ok, v, i]: the value read and the position after it.       *)
(***************************************************************************)
NoParse == [ok |-> FALSE, v |-> NONE, i |-> 0]
Parsed(v, i) == [ok |-> TRUE, v |-> v, i |-> i]

IsDigit(c) == \E d \in 1..10 : DigitChars[d] = c
DigitVal(c) == (CHOOSE d \in 1..10 : DigitChars[d] = c) - 1
At(s, i) == IF i <= Len(s) THEN s[i] ELSE "EOF"

RECURSIVE SkipWs(_, _)
SkipWs(s, i) == IF At(s, i) = " " THEN SkipWs(s, i + 1) ELSE i

\* The digits from position i on: [n, ds, i] with n their value, ds the digits.
RECURSIVE ScanDigits(_, _, _, _)
ScanDigits(s, i, n, ds) ==
    IF IsDigit(At(s, i))
    THEN ScanDigits(s, i + 1, 10 * n + DigitVal(s[i]), Append(ds, DigitVal(s[i])))
    ELSE [n |-> n, ds |-> ds, i |-> i]

\* A float's fraction without its trailing zeros (1.50 is the float 1.5).
RECURSIVE StripZeros(_)
StripZeros(ds) == IF Len(ds) > 1 /\ ds[Len(ds)] = 0
                  THEN StripZeros(SubSeq(ds, 1, Len(ds) - 1)) ELSE ds

ParseNumber(s, i) ==
    LET neg == At(s, i) = "-"
        j == IF neg THEN i + 1 ELSE i
        whole == ScanDigits(s, j, 0, <<>>)
    IN  IF whole.ds = <<>> THEN NoParse
        ELSE IF At(s, whole.i) = "."
        THEN LET frac == ScanDigits(s, whole.i + 1, 0, <<>>)
             IN  IF frac.ds = <<>> THEN NoParse
                 ELSE Parsed(FLOAT(neg, whole.n, StripZeros(frac.ds)), frac.i)
        ELSE Parsed(INT(IF neg THEN -whole.n ELSE whole.n), whole.i)

RECURSIVE ParseValue(_, _)
RECURSIVE ParseItems(_, _, _)
\* The items of a list after its first, up to the closing bracket.
ParseItems(s, i, acc) ==
    LET j == SkipWs(s, i)
    IN  IF At(s, j) = "]" THEN Parsed(LIST(acc), j + 1)
        ELSE IF At(s, j) = ","
        THEN LET item == ParseValue(s, SkipWs(s, j + 1))
             IN  IF item.ok THEN ParseItems(s, item.i, Append(acc, item.v)) ELSE NoParse
        ELSE NoParse

ParseValue(s, i) ==
    CASE At(s, i) = "n" ->
           IF SubSeq(s, i, i + 3) = <<"n", "u", "l", "l">> THEN Parsed(NONE, i + 4) ELSE NoParse
      [] At(s, i) = "[" ->
           LET j == SkipWs(s, i + 1)
           IN  IF At(s, j) = "]" THEN Parsed(LIST(<<>>), j + 1)
               ELSE LET item == ParseValue(s, j)
                    IN  IF item.ok THEN ParseItems(s, item.i, <<item.v>>) ELSE NoParse
      [] At(s, i) = "-" \/ IsDigit(At(s, i)) -> ParseNumber(s, i)
      [] OTHER -> NoParse

\* json.loads(text): the value, or NoParse when the text is not one JSON value.
Loads(s) ==
    LET r == ParseValue(s, SkipWs(s, 1))
    IN  IF r.ok /\ SkipWs(s, r.i) = Len(s) + 1 THEN r ELSE NoParse

(***************************************************************************)
(* The handlers' locals and statements.                                    *)
(***************************************************************************)
MaxReq == 3
Req == 1..MaxReq

NoLocals ==
    [fence_id |-> NONE, name |-> NONE, notes |-> NONE, created_at |-> NONE,
     coordinates_str |-> NONE]

\* Lines 31-36 of create_geofence on data: [ok, locals], ok when every .get
\* call returned, and then the locals after line 36.
Extract(data) ==
    LET fence_id == CallGet(data, "fence_id", NONE)
        props == CallGet(data, "properties", EmptyDict)
        name == CallGet(props.v, "name", NONE)
        notes == CallGet(props.v, "notes", NONE)
        created_at == CallGet(data, "created_at", NONE)
        shape == CallGet(data, "shape", EmptyDict)
        coords == CallGet(shape.v, "coordinates", NONE)
        ok == fence_id.ok /\ props.ok /\ name.ok /\ notes.ok /\ created_at.ok
                /\ shape.ok /\ coords.ok
    IN  [ok |-> ok,
         locals |-> IF ok
                    THEN [fence_id |-> fence_id.v, name |-> name.v, notes |-> notes.v,
                          created_at |-> created_at.v,
                          coordinates_str |-> STR(Dumps(coords.v))]
                    ELSE NoLocals]

\* The types sqlite3 binds to a "?" placeholder; any other raises at execute.
Bindable(v) == v.t \in {"none", "str", "int", "float"}

\* The columns the INSERT statement names, in the order of its parameters.
InsertColumns == <<"fence_id", "name", "notes", "created_at", "coordinates">>

\* A faulty parameter tuple: name and notes change places.
ParamsSwapped(l) == <<l.fence_id, l.notes, l.name, l.created_at, l.coordinates_str>>

\* The parameter tuple of line 42.
Params(l) == <<l.fence_id, l.name, l.notes, l.created_at, l.coordinates_str>>

\* The columns of table fences (schema.sql).
SchemaColumns == {"fence_id", "name", "notes", "created_at", "coordinates"}

\* The row INSERT builds: each named column gets its parameter, by position;
\* a column the statement does not name is NULL.
InsertRow(params) ==
    [c \in SchemaColumns |->
        IF \E i \in 1..Len(InsertColumns) : InsertColumns[i] = c
        THEN params[CHOOSE i \in 1..Len(InsertColumns) : InsertColumns[i] = c]
        ELSE NONE]

\* Faulty commits: an upsert on fence_id, a commit applied twice, and a
\* commit that rewrites the table from the transaction alone.
CommittedUpsert(t, p) ==
    SelectSeq(t, LAMBDA row : \A i \in 1..Len(p) : p[i]["fence_id"] # row["fence_id"]) \o p
CommittedTwice(t, p) == t \o p \o p
CommittedAlone(t, p) == p

\* The table after a commit of the transaction's rows p: they are appended.
Committed(t, p) == t \o p

\* A faulty conversion: the coordinates text is decoded on read.
DictOfRowDecoded(row) ==
    DICT([k \in DOMAIN row |->
            IF k = "coordinates" /\ row[k].t = "str" THEN Loads(row[k].s).v ELSE row[k]])

\* dict(row) of a sqlite3.Row: its column names as keys.
DictOfRow(row) == DICT([k \in DOMAIN row |-> row[k]])

\* fences_list of line 57.
FencesList(rows) == [i \in 1..Len(rows) |-> DictOfRow(rows[i])]

(***************************************************************************)
(* Request bodies: decoded JSON values (data of line 28).                  *)
(***************************************************************************)
Absent == [t |-> "absent"]

\* The object with the given keys, less those whose value is Absent.
Obj(keys, vals) ==
    DICT([k \in {keys[i] : i \in {j \in 1..Len(keys) : vals[j] # Absent}} |->
            vals[CHOOSE i \in 1..Len(keys) : keys[i] = k]])

MakeBody(fid, props, at, shape) ==
    Obj(<<"fence_id", "properties", "created_at", "shape">>, <<fid, props, at, shape>>)
MakeProps(name, notes) == Obj(<<"name", "notes">>, <<name, notes>>)
MakeShape(coords) == Obj(<<"coordinates">>, <<coords>>)

F(w) == FLOAT(FALSE, w, <<0>>)
IdF1 == STR(<<"f", "1">>)
IdF2 == STR(<<"f", "2">>)
Yard == STR(<<"Y", "a", "r", "d">>)
Back == STR(<<"b", "a", "c", "k">>)
Stamp == STR(<<"2", "0", "2", "4">>)
Square == LIST(<<LIST(<<F(1), F(2)>>), LIST(<<F(3), F(4)>>)>>)

BodyFull == MakeBody(IdF1, MakeProps(Yard, Back), Stamp, MakeShape(Square))
\* The same fence_id again, with fields left out.
BodyPartial == MakeBody(IdF1, MakeProps(Absent, Back), Absent, EmptyDict)
BodyNullProps == MakeBody(IdF2, NONE, Stamp, Absent)
BodyUnbindable == MakeBody(LIST(<<INT(1)>>), Absent, Absent, Absent)

\* The bodies of the concurrent specification.
Bodies == {BodyFull, BodyPartial, BodyNullProps, BodyUnbindable}

\* The bodies of the payload specification: every subset of the optional
\* fields, every coordinates structure within the bounds, and the malformed
\* shapes.
MaxLen == 2
Nums == {INT(-12), F(1), FLOAT(TRUE, 0, <<2, 5>>)}
SeqsUpTo(S, n) == UNION {[1..k -> S] : k \in 0..n}
Points == {LIST(a) : a \in SeqsUpTo(Nums, MaxLen)}
Coords ==
    Nums \cup Points
    \cup {LIST(<<p, q>>) : p \in Points, q \in Nums \cup {LIST(<<>>)} \cup {LIST(<<n>>) : n \in Nums}}
NotObjects == {NONE, LIST(<<>>), Yard, INT(7)}

OmissionBodies ==
    {MakeBody(fid, props, at, shape) :
        fid \in {Absent, IdF1},
        props \in {Absent} \cup {MakeProps(n, m) : n \in {Absent, Yard}, m \in {Absent, Back}},
        at \in {Absent, Stamp},
        shape \in {Absent, EmptyDict, MakeShape(Square)}}
CoordsBodies == {MakeBody(IdF2, MakeProps(Yard, Back), Stamp, MakeShape(c)) : c \in Coords}
MalformedBodies ==
    NotObjects
    \cup {MakeBody(IdF1, p, Stamp, MakeShape(Square)) : p \in NotObjects}
    \cup {MakeBody(IdF1, MakeProps(Yard, Back), Stamp, s) : s \in NotObjects}
PayloadBodies == OmissionBodies \cup CoordsBodies \cup MalformedBodies \cup {BodyUnbindable}

(***************************************************************************)
(* State.                                                                  *)
(***************************************************************************)
VARIABLES
    table,      \* the committed rows of table fences, in insertion order
    owner,      \* history: owner[i] is the request that committed table[i]
    pc,         \* each request's position in its handler
    kind,       \* "create", "get", or "none" before the request arrives
    body,       \* data: the decoded request body of a create
    locals,     \* the locals of create_geofence after line 36
    conn,       \* the request's connection: "none", "open" or "closed"
    pending,    \* the rows inserted on the connection and not yet committed
    rows,       \* fences_rows of get_geofences
    status,     \* the response's status code, 0 while there is none
    result,     \* the list get_geofences returns
    exc,        \* the exception that ended the request, "" when none
    callSeen    \* history: the requests that had ended when this one arrived

vars == <<table, owner, pc, kind, body, locals, conn, pending, rows, status,
          result, exc, callSeen>>

\* The service starts on the empty table the schema script creates.
Init ==
    /\ table = <<>>
    /\ owner = <<>>
    /\ pc = [r \in Req |-> "idle"]
    /\ kind = [r \in Req |-> "none"]
    /\ body = [r \in Req |-> NONE]
    /\ locals = [r \in Req |-> NoLocals]
    /\ conn = [r \in Req |-> "none"]
    /\ pending = [r \in Req |-> <<>>]
    /\ rows = [r \in Req |-> <<>>]
    /\ status = [r \in Req |-> 0]
    /\ result = [r \in Req |-> <<>>]
    /\ exc = [r \in Req |-> ""]
    /\ callSeen = [r \in Req |-> {}]

Ended == {q \in Req : pc[q] = "done"}

\* Requests are numbered in their order of arrival.
CanArrive(r) == pc[r] = "idle" /\ \A q \in 1..(r - 1) : pc[q] # "idle"

\* A faulty error path: the exception is swallowed and success is answered.
RaiseSwallowed(r, e) ==
    /\ pc' = [pc EXCEPT ![r] = "done"]
    /\ status' = [status EXCEPT ![r] = IF kind[r] = "get" THEN 200 ELSE 201]
    /\ exc' = [exc EXCEPT ![r] = e]

\* An exception leaves the handler uncaught: Flask answers 500.  Nothing on
\* the way out closes the connection or rolls back.
Raise(r, e) ==
    /\ pc' = [pc EXCEPT ![r] = "done"]
    /\ status' = [status EXCEPT ![r] = 500]
    /\ exc' = [exc EXCEPT ![r] = e]

\* The handler returns its response.
Return(r, code) ==
    /\ pc' = [pc EXCEPT ![r] = "done"]
    /\ status' = [status EXCEPT ![r] = code]
    /\ UNCHANGED exc

(***************************************************************************)
(* create_geofence                                                         *)
(***************************************************************************)
\* Lines 26-39: the request arrives with body data, the locals are extracted
\* and the connection is opened (get_db_connection, lines 11-15).  Opening
\* takes no lock and touches no row, so arrival, extraction and opening are
\* one step.
CreateCall(r, data) ==
    /\ CanArrive(r)
    /\ kind' = [kind EXCEPT ![r] = "create"]
    /\ body' = [body EXCEPT ![r] = data]
    /\ callSeen' = [callSeen EXCEPT ![r] = Ended]
    /\ \/ /\ Extract(data).ok
          /\ locals' = [locals EXCEPT ![r] = Extract(data).locals]
          /\ \/ /\ conn' = [conn EXCEPT ![r] = "open"]
                /\ pc' = [pc EXCEPT ![r] = "insert"]
                /\ UNCHANGED <<status, exc>>
             \/ /\ Raise(r, "OperationalError")
                /\ UNCHANGED conn
       \/ /\ ~Extract(data).ok
          /\ Raise(r, "AttributeError")
          /\ UNCHANGED <<locals, conn>>
    /\ UNCHANGED <<table, owner, pending, rows, result>>

\* Another connection holds the store's write lock: it has an open transaction.
WriteLocked(r) == \E q \in Req \ {r} : pending[q] # <<>>

\* Lines 40-43: conn.execute(INSERT ...).  The statement opens a transaction
\* on the connection and takes the write lock; it raises when a parameter
\* cannot be bound, and when the store fails or stays locked.
Insert(r) ==
    /\ pc[r] = "insert"
    /\ \/ /\ \A i \in 1..Len(InsertColumns) : Bindable(Params(locals[r])[i])
          /\ ~WriteLocked(r)
          /\ pending' = [pending EXCEPT ![r] = <<InsertRow(Params(locals[r]))>>]
          /\ pc' = [pc EXCEPT ![r] = "commit"]
          /\ UNCHANGED <<status, exc>>
       \/ /\ \E i \in 1..Len(InsertColumns) : ~Bindable(Params(locals[r])[i])
          /\ Raise(r, "InterfaceError")
          /\ UNCHANGED pending
       \/ /\ \A i \in 1..Len(InsertColumns) : Bindable(Params(locals[r])[i])
          /\ Raise(r, "OperationalError")
          /\ UNCHANGED pending
    /\ UNCHANGED <<table, owner, kind, body, locals, conn, rows, result, callSeen>>

\* Line 44: conn.commit().  A failed commit leaves the transaction open on
\* the connection (the store is busy) or rolled back (an I/O error).
Commit(r) ==
    /\ pc[r] = "commit"
    /\ \/ /\ table' = Committed(table, pending[r])
          /\ owner' = owner \o [i \in 1..(Len(table') - Len(table)) |-> r]
          /\ pending' = [pending EXCEPT ![r] = <<>>]
          /\ pc' = [pc EXCEPT ![r] = "close"]
          /\ UNCHANGED <<status, exc>>
       \/ /\ Raise(r, "OperationalError")
          /\ \/ UNCHANGED pending
             \/ pending' = [pending EXCEPT ![r] = <<>>]
          /\ UNCHANGED <<table, owner>>
    /\ UNCHANGED <<kind, body, locals, conn, rows, result, callSeen>>

\* Lines 45-48: conn.close(), then the response.  Nothing after the commit
\* touches the store, so the two are one step.
CreateReturn(r) ==
    /\ pc[r] = "close"
    /\ kind[r] = "create"
    /\ conn' = [conn EXCEPT ![r] = "closed"]
    /\ Return(r, 201)
    /\ UNCHANGED <<table, owner, kind, body, locals, pending, rows, result, callSeen>>

(***************************************************************************)
(* get_geofences                                                           *)
(***************************************************************************)
\* Lines 50-52: the request arrives and the connection is opened.
GetCall(r) ==
    /\ CanArrive(r)
    /\ kind' = [kind EXCEPT ![r] = "get"]
    /\ callSeen' = [callSeen EXCEPT ![r] = Ended]
    /\ \/ /\ conn' = [conn EXCEPT ![r] = "open"]
          /\ pc' = [pc EXCEPT ![r] = "select"]
          /\ UNCHANGED <<status, exc>>
       \/ /\ Raise(r, "OperationalError")
          /\ UNCHANGED conn
    /\ UNCHANGED <<table, owner, body, locals, pending, rows, result>>

\* Line 53: SELECT * FROM fences, fetchall(): the committed rows.
Select(r) ==
    /\ pc[r] = "select"
    /\ \/ /\ rows' = [rows EXCEPT ![r] = table]
          /\ pc' = [pc EXCEPT ![r] = "close"]
          /\ UNCHANGED <<status, exc>>
       \/ /\ Raise(r, "OperationalError")
          /\ UNCHANGED rows
    /\ UNCHANGED <<table, owner, kind, body, locals, conn, pending, result, callSeen>>

\* Lines 54-59: conn.close(), then the rows as a list of dicts.
GetReturn(r) ==
    /\ pc[r] = "close"
    /\ kind[r] = "get"
    /\ conn' = [conn EXCEPT ![r] = "closed"]
    /\ result' = [result EXCEPT ![r] = FencesList(rows[r])]
    /\ Return(r, 200)
    /\ UNCHANGED <<table, owner, kind, body, locals, pending, rows, callSeen>>

\* The statements on the open connection, of either handler.
Step(r) ==
    \/ Insert(r)
    \/ Commit(r)
    \/ Select(r)
    \/ CreateReturn(r)
    \/ GetReturn(r)

\* Any requests, in any interleaving (app.run serves each on its own thread).
Next ==
    \E r \in Req :
        \/ \E data \in Bodies : CreateCall(r, data)
        \/ GetCall(r)
        \/ Step(r)

Spec == Init /\ [][Next]_vars

\* One create_geofence request with any body of PayloadBodies and one
\* get_geofences request, interleaved.
NextPayload ==
    \/ \E data \in PayloadBodies : CreateCall(1, data)
    \/ GetCall(2)
    \/ \E r \in 1..2 : Step(r)

SpecPayload == Init /\ [][NextPayload]_vars

(***************************************************************************)
(* Properties.  What a payload gives is read off the body directly, not    *)
(* through the handler's lookups.                                          *)
(***************************************************************************)
Creates == {r \in Req : kind[r] = "create"}
Gets == {r \in Req : kind[r] = "get"}
RowsOf(r) == {i \in 1..Len(owner) : owner[i] = r}
NullText == STR(<<"n", "u", "l", "l">>)
FiveKeys == {"fence_id", "name", "notes", "created_at", "coordinates"}

Has(v, key) == v.t = "dict" /\ key \in DOMAIN v.o
Field(v, key) == IF Has(v, key) THEN v.o[key] ELSE NONE
GivenCoords(data) == Field(Field(data, "shape"), "coordinates")

\* The body is not an object, or properties or shape is present and is none.
Malformed(data) ==
    \/ data.t # "dict"
    \/ \E key \in {"properties", "shape"} : Has(data, key) /\ data.o[key].t # "dict"

\* An object whose fields, where present, are objects and strings (or null).
ValidPayload(data) ==
    /\ ~Malformed(data)
    /\ Field(data, "fence_id").t \in {"none", "str"}
    /\ Field(data, "created_at").t \in {"none", "str"}
    /\ Field(Field(data, "properties"), "name").t \in {"none", "str"}
    /\ Field(Field(data, "properties"), "notes").t \in {"none", "str"}

\* rec carries the four scalar fields exactly as the payload data gives them.
Matches(rec, data) ==
    /\ rec["fence_id"] = Field(data, "fence_id")
    /\ rec["name"] = Field(Field(data, "properties"), "name")
    /\ rec["notes"] = Field(Field(data, "properties"), "notes")
    /\ rec["created_at"] = Field(data, "created_at")

\* C1: once a create has returned 201, every get_geofences call made later
\* that returns a list has in it a record whose fence_id, name, notes and
\* created_at are exactly the payload's.
C1_CreatedRecordListed ==
    \A g \in Gets, c \in Creates :
        (status[g] = 200 /\ status[c] = 201 /\ c \in callSeen[g])
            => \E i \in 1..Len(result[g]) : Matches(result[g][i].o, body[c])

C1_Witness ==
    \E g \in Gets, c \in Creates :
        /\ status[g] = 200 /\ status[c] = 201 /\ c \in callSeen[g]
        /\ body[c] = BodyFull
        /\ Len(result[g]) = 2

\* C2: from the empty table, a get_geofences call made after N creates have
\* returned 201 (and no other create is in flight) and not failed by the
\* store returns 200 and exactly N records; fence_id values may repeat.
C2_ListReturnsAllCreated ==
    \A g \in Gets :
        (pc[g] = "done" /\ exc[g] = "" /\ Creates \subseteq callSeen[g])
            => /\ status[g] = 200
               /\ Len(result[g]) = Cardinality({c \in Creates : status[c] = 201})

C2_Witness ==
    \E g \in Gets, c, d \in Creates :
        /\ pc[g] = "done" /\ exc[g] = "" /\ Creates \subseteq callSeen[g]
        /\ c # d /\ status[c] = 201 /\ status[d] = 201
        /\ Field(body[c], "fence_id") = Field(body[d], "fence_id")
        /\ Len(result[g]) = 2

\* Each field the payload omits is NULL in the row; omitted coordinates are
\* the text null.
OmittedAreNull(row, data) ==
    /\ ~Has(data, "fence_id") => row["fence_id"] = NONE
    /\ ~Has(data, "created_at") => row["created_at"] = NONE
    /\ ~Has(Field(data, "properties"), "name") => row["name"] = NONE
    /\ ~Has(Field(data, "properties"), "notes") => row["notes"] = NONE
    /\ ~Has(Field(data, "shape"), "coordinates") => row["coordinates"] = NullText

\* C3: a create whose object payload omits any of the optional fields raises
\* nothing of its own (only the store can fail it); it then returns 201 and
\* stores one row, with NULL for each omitted field and the text null for
\* omitted coordinates.
C3_OmittedFieldsStoredNull ==
    \A c \in Creates :
        (pc[c] = "done" /\ ValidPayload(body[c]))
            => /\ exc[c] \in {"", "OperationalError"}
               /\ exc[c] = "" =>
                    /\ status[c] = 201
                    /\ Cardinality(RowsOf(c)) = 1
                    /\ \A i \in RowsOf(c) : OmittedAreNull(table[i], body[c])

C3_Witness ==
    \E c \in Creates :
        /\ body[c] = EmptyDict /\ status[c] = 201
        /\ \E i \in RowsOf(c) :
              table[i] = [k \in FiveKeys |-> IF k = "coordinates" THEN NullText ELSE NONE]

\* C4: the coordinates text of every listed record decodes to the structure
\* the create payload gave: same nesting, order, and numbers (an int stays an
\* int, a float a float).
C4_CoordinatesRoundTrip ==
    \A g \in Gets :
        status[g] = 200 =>
            \A i \in 1..Len(result[g]) :
                LET text == result[g][i].o["coordinates"]
                IN  /\ text.t = "str"
                    /\ Loads(text.s) = Parsed(GivenCoords(body[owner[i]]), Len(text.s) + 1)

C4_Witness ==
    \E g \in Gets :
        /\ status[g] = 200 /\ Len(result[g]) = 1
        /\ GivenCoords(body[owner[1]]) =
              LIST(<<LIST(<<INT(-12), FLOAT(TRUE, 0, <<2, 5>>)>>), LIST(<<F(1)>>)>>)

\* C5: every step keeps each row of the table in place and unchanged and
\* adds at most one row; a step of get_geofences leaves the table as it is.
C5_AppendOnly ==
    [][/\ Len(table') \in {Len(table), Len(table) + 1}
       /\ \A i \in 1..Len(table) : table'[i] = table[i]
       /\ (\E g \in Req : pc'[g] # pc[g] /\ kind'[g] = "get") => table' = table]_vars

C5_Witness ==
    /\ Len(table) = 2
    /\ \E g \in Gets : status[g] = 200 /\ Len(result[g]) = 1

\* C6: get_geofences returns every row stored before the call, each as a
\* record with exactly the five keys, whose coordinates value is the stored
\* text itself, not the decoded structure.
C6_ListIsFlatAndSerialized ==
    \A g \in Gets :
        status[g] = 200 =>
            /\ \A i \in 1..Len(owner) : owner[i] \in callSeen[g] => i <= Len(result[g])
            /\ \A i \in 1..Len(result[g]) :
                  /\ result[g][i].t = "dict"
                  /\ DOMAIN result[g][i].o = FiveKeys
                  /\ result[g][i].o["coordinates"] = table[i]["coordinates"]
                  /\ result[g][i].o["coordinates"].t = "str"

C6_Witness ==
    \E g \in Gets :
        /\ status[g] = 200 /\ Len(result[g]) >= 1
        /\ GivenCoords(body[owner[1]]) = Square
        /\ result[g][1].o["coordinates"] # Square

\* C7: a request the store failed ends in a 500 response, has committed no
\* row and returns no list; 201 is answered only for a committed row and 200
\* only by a request that nothing failed.
C7_StoreFailureIsServerError ==
    \A r \in Req :
        /\ exc[r] = "OperationalError"
              => status[r] = 500 /\ RowsOf(r) = {} /\ result[r] = <<>>
        /\ status[r] = 201 => exc[r] = "" /\ Cardinality(RowsOf(r)) = 1
        /\ status[r] = 200 => exc[r] = "" /\ result[r] = FencesList(rows[r])

C7_Witness ==
    /\ \E c \in Creates : exc[c] = "OperationalError" /\ pending[c] # <<>>
    /\ \E g \in Gets : exc[g] = "OperationalError" /\ conn[g] = "open"
    /\ Len(table) = 1

\* C8: no connection opened by a finished request is still open.
C8_ConnectionReleased ==
    \A r \in Req : pc[r] = "done" => conn[r] # "open"

\* C9: under any interleaving, each create that returned 201 has added
\* exactly one row, the table holds one row per committed create, and every
\* record of a get_geofences result is a whole row: all five fields as its
\* create inserted them.
C9_ConcurrentCreatesAtomic ==
    /\ \A c \in Creates : status[c] = 201 => Cardinality(RowsOf(c)) = 1
    /\ Len(table) =
          Cardinality({c \in Creates : pc[c] = "close" \/ status[c] = 201})
    /\ Ended = Req => Len(table) = Cardinality({c \in Creates : status[c] = 201})
    /\ \A g \in Gets :
          status[g] = 200 =>
              \A i \in 1..Len(result[g]) :
                  /\ i <= Len(table)
                  /\ DOMAIN result[g][i].o = FiveKeys
                  /\ Matches(result[g][i].o, body[owner[i]])
                  /\ result[g][i].o["coordinates"].t = "str"

\* Two creates in flight together, both answered 201, and a list taken
\* between their commits.
C9_Witness ==
    \E c, d \in Creates, g \in Gets :
        /\ c # d /\ status[c] = 201 /\ status[d] = 201
        /\ c \notin callSeen[d] /\ d \notin callSeen[c]
        /\ c \notin callSeen[g] /\ d \notin callSeen[g]
        /\ status[g] = 200 /\ Len(result[g]) = 1

\* C10: a create with a malformed body ends in AttributeError, answered 500,
\* before any connection is opened; it adds no row.
C10_MalformedBodyUncaught ==
    \A c \in Creates :
        Malformed(body[c]) =>
            /\ pc[c] = "done" /\ status[c] = 500 /\ exc[c] = "AttributeError"
            /\ conn[c] = "none" /\ pending[c] = <<>> /\ RowsOf(c) = {}

C10_Witness ==
    /\ \E c \in Creates :
          body[c] = MakeBody(IdF1, NONE, Stamp, MakeShape(Square)) /\ status[c] = 500
    /\ table = <<>>
=============================================================================
